---- MODULE Spec2Model ----
(***************************************************************************)
(* Model of the cache path of httpmirror's MirrorHandler for one cache key *)
(* K: remote Stat, freshness check, single-flight refresh (direct and tee  *)
(* mode), and the response shaper.  Contents are abstracted to a pair      *)
(* (ver, n): the first n bytes of the origin object of size ver; an origin *)
(* object is identified by its size.                                       *)
(***************************************************************************)
EXTENDS Integers, FiniteSets, Sequences, TLC

\* ---------------------------------------------------------------- bounds
NumReq == 2
MaxSize == 1
MaxChanges == 1
MaxLocalSize == 2

Reqs == 1..NumReq

\* The request method.  cacheResponse reads it only where it shapes the
\* response, so the model draws it there.
Methods == {"GET", "HEAD"}

VARIABLES
    cfg,       \* MirrorHandler configuration: TeeResponse, NoRedirect, CheckSyncTimeout > 0
    origin,    \* size (and identity) of the object the origin serves for K now
    changes,   \* how often the origin's object changed
    store,     \* the remote store's object for K
    req,       \* the requests: position in cacheResponse and its locals
    group,     \* singleflight.Group: 0, or the in-flight call for K
    waiters,   \* the result channels registered on the in-flight call
    result,    \* what was sent on each request's result channel
    prod,      \* the refresh producers, one per call
    teeCache,  \* m.teeCache entry for K: 0, or a tee session
    tee,       \* the tee sessions
    last,      \* the response the last step wrote, if it wrote one, with the request's locals
    ended,     \* the producer run the last step ended, if it ended one
    seen,      \* what cacheResponse found in the last step, if it stat'ed the store
    local,     \* LocalCacheDir: set or not, the files at <K>.tmp and <K>, the producers' handles
    adm,       \* a request at ServeHTTP: method, path, Host header, configuration, outcome
    call,      \* one call of a helper function: its arguments and what it returned
    mut,       \* the per-key in-flight table m.mut of the channel-based cacheResponse
    cidn       \* a cacheFileWithCIDN call, the blobs it can see and the informer's events

vars == <<cfg, origin, changes, store, req, group, waiters, result, prod, teeCache, tee, last, ended,
          seen, local, adm, call, mut, cidn>>

\* ---------------------------------------------------------------- values
NoObj == [ver |-> -1, n |-> -1]
\* An object cached from an earlier state of the origin.
OldObj == [ver |-> MaxSize + 1, n |-> MaxSize + 1]
NoResp == [status |-> 0, kind |-> "none", ver |-> -1, n |-> -1, cl |-> -1, lm |-> -1, etag |-> -1,
           ct |-> "none"]
NoResult == [err |-> "none", shared |-> FALSE, val |-> 0]
NoProd == [pc |-> "none", ver |-> -1, cl |-> -1]
NoTee == [made |-> FALSE, size |-> -1, ver |-> -1, written |-> 0, swmrClosed |-> FALSE,
          using |-> 0, tmpClosed |-> FALSE, out |-> "none"]
NoReq == [pc |-> "idle", cacheInfo |-> NoObj, via |-> "none", tee |-> 0]
DoneReq == [NoReq EXCEPT !.pc = "done"]
NoLast == [r |-> 0, resp |-> NoResp, via |-> "none", cacheInfo |-> NoObj, sess |-> "none",
           method |-> "none"]
NoEnd == [p |-> 0, out |-> "none", cerr |-> FALSE, n |-> -1, get |-> "none", cl |-> -1,
          calls |-> {}, body |-> "none"]
NoOut == [kind |-> "none", host |-> <<>>, path |-> <<>>, key |-> <<>>]
NoConf == [blockSuffix |-> {}, hostFromFirstPath |-> FALSE, baseDomain |-> <<>>,
           host |-> <<>>, notFound |-> FALSE]
NoAdm == [pc |-> "off", method |-> "GET", path |-> <<>>, host |-> <<>>, conf |-> NoConf,
          out |-> NoOut]
NoCall == [fn |-> "none", pc |-> "off"]
NoCidn == [pc |-> "off"]
NoMut == [table |-> 0, closed |-> {}, pc |-> <<>>, ch |-> <<>>, cached |-> FALSE]
NoLocal == [dir |-> FALSE, tmp |-> 0, final |-> 0, fd |-> [r \in Reqs |-> 0],
            data |-> [r \in Reqs |-> NoObj], committed |-> {}]
NoSeen == [r |-> 0, st |-> "none", found |-> FALSE, cacheSize |-> -1, probe |-> "none",
           sourceSize |-> -1]

\* A response: status, what it is, the object (ver, n) its body, redirect or
\* metadata comes from, and the headers the handler set before the status was
\* written: Content-Length, and the versions whose Last-Modified and ETag
\* are sent (-1: not sent).
Resp(s, k, v, n) ==
    [NoResp EXCEPT !.status = s, !.kind = k, !.ver = v, !.n = n]

Headers(resp, cl, lm, etag) == [resp EXCEPT !.cl = cl, !.lm = lm, !.etag = etag]

\* The Content-Type sent: the one the handler set before the status was
\* written, or the one http.ServeContent detects.
OctetStream == "application/octet-stream"

Typed(resp, ct) == [resp EXCEPT !.ct = ct]

\* An error answer that reports every error as not found.
errorResponseNotFound(e) == Resp(404, e, -1, -1)

\* errorResponse: 500 with the error's text
errorResponse(e) == Resp(500, e, -1, -1)
\* notFoundResponse: 404
notFoundResponse == Resp(404, "notfound", -1, -1)
\* a handler return with nothing written (net/http then sends an empty 200)
Unwritten == Resp(200, "unwritten", -1, -1)

\* The response of request r, written with the locals q.
Written(r, q, resp) ==
    [NoLast EXCEPT !.r = r, !.resp = resp, !.via = q.via, !.cacheInfo = q.cacheInfo]

\* The same, for a response that depends on the request's method.
WrittenFor(method, r, q, resp) == [Written(r, q, resp) EXCEPT !.method = method]

\* A tee session nothing refers to any more keeps no content.
Unreferenced(t, rq, tc, rs, pr) ==
    /\ pr[t].pc # "copy"
    /\ tc # t
    /\ \A r \in Reqs : rq[r].tee # t /\ rs[r].val # t

Forget(te, rq, tc, rs, pr) ==
    [t \in Reqs |-> IF te[t].made /\ Unreferenced(t, rq, tc, rs, pr)
                    THEN [te[t] EXCEPT !.size = -1, !.ver = -1, !.written = 0, !.out = "none"]
                    ELSE te[t]]

Init ==
    /\ cfg \in [tee : BOOLEAN, noRedirect : BOOLEAN, checkSync : BOOLEAN]
    /\ origin = 1
    /\ changes = 0
    /\ store \in {NoObj, OldObj}
    /\ req = [r \in Reqs |-> NoReq]
    /\ group = 0
    /\ waiters = {}
    /\ result = [r \in Reqs |-> NoResult]
    /\ prod = [r \in Reqs |-> NoProd]
    /\ teeCache = 0
    /\ tee = [r \in Reqs |-> NoTee]
    /\ last = NoLast
    /\ ended = NoEnd
    /\ seen = NoSeen
    /\ local = NoLocal
    /\ adm = NoAdm
    /\ call = NoCall
    /\ mut = NoMut
    /\ cidn = NoCidn

\* The sizes of the origin's objects; one size more with a local cache
\* directory, where two fetches of different non-empty objects can meet.
Sizes == 0..(IF local.dir THEN MaxLocalSize ELSE MaxSize)

\* The origin replaces its object.
OriginChange ==
    /\ changes < MaxChanges
    /\ \E s \in Sizes \ {origin} : origin' = s
    /\ changes' = changes + 1
    /\ last' = NoLast
    /\ ended' = NoEnd
    /\ seen' = NoSeen
    /\ UNCHANGED <<cidn, mut, call, adm, local, cfg, store, req, group, waiters, result, prod, teeCache, tee>>

\* ---------------------------------------------------------------- requests
ProbeOutcomes == {"fail", "unknown", "size"}

\* The size an origin HEAD reports (fileInfo.Size of the probe's response).
SourceSize(probe) == IF probe = "size" THEN origin ELSE -1

\* A comparison that takes an origin which reports no size for a change.
SizeFreshKnownOnly(cacheSize, sourceSize) ==
    cacheSize # 0 /\ sourceSize = cacheSize

\* cacheResponse's comparison of the cached and the origin size.
SizeFresh(cacheSize, sourceSize) ==
    cacheSize # 0 /\ (sourceSize <= 0 \/ sourceSize = cacheSize)

\* cacheResponse probes the origin with a HEAD only for an entry it found and
\* only when CheckSyncTimeout is set.
Probes(found) == found /\ cfg.checkSync

\* A decision that probes the origin whatever CheckSyncTimeout is.
DecideAlwaysProbe(cacheSize, probe) ==
    IF probe = "fail" THEN "serve"
    ELSE IF SizeFresh(cacheSize, SourceSize(probe)) THEN "serve"
    ELSE "refresh"

\* A decision that takes a failed probe for a change of the origin.
DecideRefreshOnProbeFailure(cacheSize, probe) ==
    IF ~cfg.checkSync THEN "serve"
    ELSE IF probe # "fail" /\ SizeFresh(cacheSize, SourceSize(probe)) THEN "serve"
    ELSE "refresh"

\* cacheResponse's decision for an entry Stat has found.
Decide(cacheSize, probe) ==
    IF ~cfg.checkSync THEN "serve"
    ELSE IF probe = "fail" THEN "serve"
    ELSE IF SizeFresh(cacheSize, SourceSize(probe)) THEN "serve"
    ELSE "refresh"

\* The Last-Modified of a response served from the local file: the file's
\* own modification time, which is no object's.
LocalTime == -2

\* What os.Stat finds at a local path: nothing, a directory, or a file.
Missing == [kind |-> "missing", ver |-> -1, n |-> -1]
Dir == [kind |-> "dir", ver |-> -1, n |-> 1]
File(ver, n) == [kind |-> "file", ver |-> ver, n |-> n]

\* os.Stat of <K> in LocalCacheDir.
localStat ==
    IF local.final = 0 THEN Missing
    ELSE File(local.data[local.final].ver, local.data[local.final].n)

\* A local fast path that never asks the origin.
tryServeNoProbe(fi, sync, probeOk, sourceSize, openOk) ==
    /\ fi.kind = "file"
    /\ fi.n # 0
    /\ openOk

\* tryServeFromLocalCache returns true, having served the file: the path is
\* a file that is not empty, the origin's probe (made when CheckSyncTimeout
\* is set and there is no CIDN client) failed, reported no size or reported
\* the file's size, and os.Open succeeded.
tryServeFromLocalCache(fi, sync, probeOk, sourceSize, openOk) ==
    /\ fi.kind = "file"
    /\ fi.n # 0
    /\ ~(sync /\ probeOk /\ sourceSize > 0 /\ sourceSize # fi.n)
    /\ openOk

\* http.ServeContent on the local file.
localServed(method, fi) ==
    Typed(Headers(Resp(200, IF method = "HEAD" THEN "localhead" ELSE "local", fi.ver, fi.n),
                  fi.n, LocalTime, -1), "detected")

\* A request arrives; in tee mode with a local cache directory cacheResponse
\* first tries the local file; then it stats the remote store and decides.
Stat(r) ==
    /\ req[r].pc = "idle"
    /\ IF r = 1 THEN TRUE ELSE req[r - 1].pc # "idle"
    /\ \/ /\ cfg.tee /\ local.dir
          /\ \E probe \in ProbeOutcomes, openOk \in BOOLEAN, m \in Methods :
               /\ tryServeFromLocalCache(localStat, cfg.checkSync, probe # "fail",
                                         SourceSize(probe), openOk)
               /\ last' = WrittenFor(m, r, req[r], localServed(m, localStat))
          /\ req' = [req EXCEPT ![r] = DoneReq]
          /\ seen' = NoSeen
       \/ /\ (cfg.tee /\ local.dir) =>
                \E probe \in ProbeOutcomes, openOk \in BOOLEAN :
                    ~tryServeFromLocalCache(localStat, cfg.checkSync, probe # "fail",
                                            SourceSize(probe), openOk)
          /\ \E st \in {"canceled", "error", "ok"}, probe \in ProbeOutcomes :
               LET found == st = "ok" /\ store # NoObj
                   d == IF found THEN Decide(store.n, probe) ELSE "refresh"
               IN  /\ IF st = "canceled"
                      THEN /\ req' = [req EXCEPT ![r] = DoneReq]
                           /\ last' = Written(r, req[r], errorResponse("canceled"))
                      ELSE /\ req' = [req EXCEPT ![r] =
                                  [@ EXCEPT !.pc = IF d = "serve" THEN "serve" ELSE "dochan",
                                            !.cacheInfo = IF found THEN store ELSE NoObj,
                                            !.via = IF d = "serve" THEN "hit" ELSE "none"]]
                           /\ last' = NoLast
                   /\ seen' = [r |-> r, st |-> st, found |-> found,
                               cacheSize |-> IF found THEN store.n ELSE -1,
                               probe |-> IF Probes(found) THEN probe ELSE "none",
                               sourceSize |-> IF Probes(found) THEN SourceSize(probe) ELSE -1]
    /\ ended' = NoEnd
    /\ UNCHANGED <<cidn, mut, call, adm, local, cfg, origin, changes, store, group, waiters, result, prod,
                   teeCache, tee>>

\* The handler panicked: net/http drops the connection, nothing is answered.
Panicked == Resp(0, "panic", -1, -1)

\* A redirect that answers every HEAD with a presigned URL.
redirectHeadAlwaysSigned(method, info, statOk, signOk) ==
    IF ~signOk THEN Unwritten
    ELSE IF method = "HEAD" THEN Resp(302, "signhead", store.ver, store.n)
    ELSE Resp(302, "signget", store.ver, store.n)

\* redirect: HEAD answers from the entry's metadata (statting the store when
\* it holds none), GET with a presigned URL; a Sign error returns with
\* nothing written.
redirect(method, info, statOk, signOk) ==
    IF method = "HEAD"
    THEN LET i == IF info # NoObj THEN info ELSE IF statOk THEN store ELSE NoObj
         IN  IF i # NoObj
             THEN Typed(Headers(Resp(200, "head", i.ver, i.n), i.n, i.ver, i.ver), OctetStream)
             ELSE IF signOk THEN Resp(302, "signhead", store.ver, store.n)
             ELSE Unwritten
    ELSE IF signOk THEN Resp(302, "signget", store.ver, store.n)
         ELSE Unwritten

\* serveFromCache: setHeaders first reads the entry's metadata, which panics
\* on a nil entry, and sets the ETag of the entry it was given.  HEAD and GET
\* then write the status before they set Content-Length and Last-Modified,
\* so these are not sent; GET streams the store's object.
serveFromCache(method, info, ioOk) ==
    IF info = NoObj THEN Panicked
    ELSE IF method = "HEAD" THEN Headers(Resp(200, "headbare", info.ver, -1), -1, -1, info.ver)
    ELSE IF ioOk /\ store # NoObj
    THEN Headers(Resp(200, "body", store.ver, store.n), -1, -1, info.ver)
    ELSE errorResponse("io")

\* responseCache
responseCache(method, info, ioOk, signOk) ==
    IF cfg.noRedirect THEN serveFromCache(method, info, ioOk)
    ELSE redirect(method, info, ioOk, signOk)

\* A serving step that drops the entry it served.
servedStoreEvicted(s) == NoObj

\* The store after responseCache: Stat, SignGet, SignHead and Reader only
\* read it.
servedStore(s) == s

\* The request answers from the cache with the entry reference it holds.
Serve(r) ==
    /\ req[r].pc = "serve"
    /\ \E m \in Methods, ioOk \in BOOLEAN, signOk \in BOOLEAN :
         last' = WrittenFor(m, r, req[r], responseCache(m, req[r].cacheInfo, ioOk, signOk))
    /\ req' = [req EXCEPT ![r] = DoneReq]
    /\ store' = servedStore(store)
    /\ ended' = NoEnd
    /\ seen' = NoSeen
    /\ UNCHANGED <<cidn, mut, call, adm, local, cfg, origin, changes, group, waiters, result,
                   prod, teeCache, tee>>

\* A ctx.Done case that falls back to the entry the request holds.
ctxDoneServesStale(q) ==
    IF q.cacheInfo # NoObj THEN Resp(200, "body", q.cacheInfo.ver, q.cacheInfo.n)
    ELSE errorResponse("canceled")

\* cacheResponse's answer in the ctx.Done case of its select.
ctxDoneResponse(q) == errorResponse("canceled")

\* The refresh step of cacheResponse.  Tee branch: a session found in the map
\* is served; otherwise, and on the direct branch, group.DoChan starts the
\* call for K or joins the one in flight, and the request goes to its select:
\* with its context live ("wait"), or already ended ("race").
DoChan(r) ==
    /\ req[r].pc = "dochan"
    /\ IF cfg.tee /\ teeCache # 0
       THEN /\ req' = [req EXCEPT ![r] = [@ EXCEPT !.pc = "teeServe", !.tee = teeCache]]
            /\ UNCHANGED <<group, waiters, prod>>
       ELSE /\ \E gone \in BOOLEAN :
                 req' = [req EXCEPT ![r] = [@ EXCEPT !.pc = IF gone THEN "race" ELSE "wait"]]
            /\ IF group = 0
               THEN /\ group' = r
                    /\ waiters' = {r}
                    /\ prod' = [prod EXCEPT ![r] = [NoProd EXCEPT !.pc = "get"]]
               ELSE /\ waiters' = waiters \cup {r}
                    /\ UNCHANGED <<group, prod>>
    /\ last' = NoLast
    /\ ended' = NoEnd
    /\ seen' = NoSeen
    /\ UNCHANGED <<cidn, mut, call, adm, local, cfg, origin, changes, store, result, teeCache, tee>>

\* The context of a request blocked in the select ends (the client went
\* away).  With no result on its channel the request is woken into the
\* ctx.Done case; with a result already there, either case may be taken.
CancelCtx(r) ==
    /\ req[r].pc = "wait"
    /\ IF result[r] = NoResult
       THEN /\ req' = [req EXCEPT ![r] = DoneReq]
            /\ last' = Written(r, [req[r] EXCEPT !.via = "waitcancel"], ctxDoneResponse(req[r]))
       ELSE /\ req' = [req EXCEPT ![r] = [@ EXCEPT !.pc = "race"]]
            /\ last' = NoLast
    /\ ended' = NoEnd
    /\ seen' = NoSeen
    /\ UNCHANGED <<cidn, mut, call, adm, local, cfg, origin, changes, store, group, waiters, result, prod,
                   teeCache, tee>>

\* ---------------------------------------------------------------- results
\* Direct branch: what cacheResponse does with the call's result.
directResult(r, q, res) ==
    IF res.err # "nil"
    THEN IF q.cacheInfo # NoObj
         THEN [rq |-> [q EXCEPT !.pc = "serve", !.via = "stale"], out |-> NoLast]
         ELSE IF res.err = "notok"
         THEN [rq |-> DoneReq, out |-> Written(r, q, notFoundResponse)]
         ELSE [rq |-> DoneReq, out |-> Written(r, q, errorResponse(res.err))]
    ELSE [rq |-> [q EXCEPT !.pc = "serve", !.via = "refreshed"], out |-> NoLast]

\* Tee branch: what cacheResponse does with the call's result.
teeResult(r, q, res) ==
    IF res.err # "nil"
    THEN [rq |-> DoneReq, out |-> Written(r, q, Unwritten)]
    ELSE [rq |-> [q EXCEPT !.pc = "teeServe", !.tee = res.val], out |-> NoLast]

\* Tee branch: the session is put into the map by the request whose result
\* is not shared.
teeStore(res) ==
    IF cfg.tee /\ res.err = "nil" /\ ~res.shared THEN res.val ELSE teeCache

\* The select takes the result case.
Receive(r) ==
    /\ req[r].pc \in {"wait", "race"}
    /\ result[r] # NoResult
    /\ LET x == IF cfg.tee THEN teeResult(r, req[r], result[r])
                ELSE directResult(r, req[r], result[r])
       IN  /\ req' = [req EXCEPT ![r] = x.rq]
           /\ last' = x.out
    /\ teeCache' = teeStore(result[r])
    /\ result' = [result EXCEPT ![r] = NoResult]
    /\ ended' = NoEnd
    /\ seen' = NoSeen
    /\ UNCHANGED <<cidn, mut, call, adm, local, cfg, origin, changes, store, group, waiters, prod, tee>>

\* The select takes the ctx.Done case, the context having ended before the
\* select or after the result was sent.
SelectCtx(r) ==
    /\ req[r].pc = "race"
    /\ req' = [req EXCEPT ![r] = DoneReq]
    /\ last' = Written(r, req[r], ctxDoneResponse(req[r]))
    /\ result' = [result EXCEPT ![r] = NoResult]
    /\ tee' = Forget(tee, req', teeCache, result', prod)
    /\ ended' = NoEnd
    /\ seen' = NoSeen
    /\ UNCHANGED <<cidn, mut, call, adm, local, cfg, origin, changes, store, group, waiters, prod, teeCache>>

\* ---------------------------------------------------------------- producers
\* singleflight: the call's function returned; every registered channel that
\* still has a receiver gets the result, shared when there are several.
Delivered(err, val) ==
    [r \in Reqs |-> IF r \in waiters /\ req[r].pc # "done"
                    THEN [err |-> err, shared |-> Cardinality(waiters) > 1, val |-> val]
                    ELSE result[r]]

\* A producer under the context of the request that started it.
producerCtxOfRequest(p) == req[p].pc # "done"

\* The producer runs under context.Background(), which never ends.
producerCtxLive(p) == TRUE

\* The end of a producer run: outcome, copy error, bytes copied.
Ended(p, o, cerr, n) == [NoEnd EXCEPT !.p = p, !.out = o, !.cerr = cerr, !.n = n]

\* What the run did on the way: how the origin GET ended and the length it
\* declared, the calls made on the remote store's Writer, and what became
\* of the origin's body.
Did(e, g, cl, calls) ==
    [e EXCEPT !.get = g, !.cl = IF g = "ok" THEN cl ELSE -1, !.calls = calls,
              !.body = IF g = "err" THEN "none" ELSE "closed"]

\* The Content-Length the origin declares for its object.
Declared(clk) ==
    CASE clk = "exact" -> origin
      [] clk = "unknown" -> -1
      [] OTHER -> origin + 1

\* ---------------------------------------------------------------- local files
\* A file is identified by the producer whose os.Create made it.
EmptyFile == [ver |-> -1, n |-> 0]

\* cacheFileTee's os.Create(localCachePath + ".tmp"): O_CREATE|O_TRUNC makes
\* the file, or opens and truncates the one another fetch of K is writing.
localCreate(l, p) ==
    LET f == IF l.tmp = 0 THEN p ELSE l.tmp
    IN  [l EXCEPT !.tmp = f, !.fd[p] = f, !.data[f] = EmptyFile]

\* io.Copy through the producer's handle: n bytes from offset 0.
localWrite(l, p, ver, n) ==
    LET f == l.fd[p]
    IN  IF f = 0 \/ n = 0 THEN l
        ELSE [l EXCEPT !.data[f] = [ver |-> ver, n |-> IF l.data[f].n > n THEN l.data[f].n ELSE n]]

\* os.Remove(tmp.Name()): unlinks whatever is at <K>.tmp now.
localRemove(l) == [l EXCEPT !.tmp = 0]

\* os.Rename(tmp.Name(), localCachePath); an error (no file at <K>.tmp) is
\* only logged.
localRename(l) == IF l.tmp = 0 THEN l ELSE [l EXCEPT !.final = l.tmp, !.tmp = 0]

\* The producer is done with its handle; files without a name and a handle
\* are gone.
localRelease(l, p) ==
    LET fd == [l.fd EXCEPT ![p] = 0]
        kept == {l.tmp, l.final} \cup {fd[q] : q \in Reqs}
    IN  [l EXCEPT !.fd = fd,
                  !.data = [f \in Reqs |-> IF f \in kept THEN l.data[f] ELSE NoObj]]

\* The local side of cacheFileTee up to the Writer: the file is created once
\* the origin has answered with a body, and removed when the Writer fails.
localFetch(l, p, g, cl, wOk) ==
    IF ~(cfg.tee /\ l.dir) \/ g # "ok" \/ cl = 0 THEN l
    ELSE IF wOk THEN localCreate(l, p)
    ELSE localRelease(localRemove(localCreate(l, p)), p)

\* The local side of the tee goroutine: the copy, then the rename after a
\* Commit, or the removal after a failure.
localTransfer(l, p, ver, n, o) ==
    IF ~(cfg.tee /\ l.dir) THEN l
    ELSE LET w == localWrite(l, p, ver, n)
             e == IF o = "committed"
                  THEN [localRename(w) EXCEPT !.committed = @ \cup {n}]
                  ELSE localRemove(w)
         IN  localRelease(e, p)

\* A fetch that lets a declared length of 0 pass.
fetchOutcomeNoZeroCheck(g, cl, wOk) ==
    IF g = "err" THEN "other"
    ELSE IF g = "notok" THEN "notok"
    ELSE IF ~wOk THEN "other"
    ELSE "ok"

\* The Writer is asked for once the origin has answered 200 with a declared
\* length other than 0.
fetchCalls(g, cl) == IF g = "ok" /\ cl # 0 THEN {"Writer"} ELSE {}

\* cacheFileDirect and cacheFileTee up to the store's Writer: origin GET,
\* status and Content-Length check, Writer.
fetchOutcome(g, cl, wOk) ==
    IF g = "err" THEN "other"
    ELSE IF g = "notok" THEN "notok"
    ELSE IF cl = 0 THEN "notok"
    ELSE IF ~wOk THEN "other"
    ELSE "ok"

\* The producer's first part.  In tee mode the session is created here and
\* the call returns it, the copy running on in a goroutine.
Fetch(p) ==
    /\ prod[p].pc = "get"
    /\ producerCtxLive(p)
    /\ \E g \in {"err", "notok", "ok"}, clk \in {"exact", "unknown", "over"}, wOk \in BOOLEAN :
         LET cl == Declared(clk)
             o == fetchOutcome(g, cl, wOk)
         IN  /\ IF o # "ok"
                THEN /\ prod' = [prod EXCEPT ![p] = [NoProd EXCEPT !.pc = "end"]]
                     /\ result' = Delivered(o, 0)
                     /\ group' = 0
                     /\ waiters' = {}
                     /\ tee' = tee
                     /\ ended' = Did(Ended(p, o, FALSE, -1), g, cl, fetchCalls(g, cl))
                ELSE /\ prod' = [prod EXCEPT ![p] = [pc |-> "copy", ver |-> origin, cl |-> cl]]
                     /\ IF cfg.tee
                        THEN /\ tee' = [tee EXCEPT ![p] =
                                    [NoTee EXCEPT !.made = TRUE, !.size = cl, !.ver = origin]]
                             /\ result' = Delivered("nil", p)
                             /\ group' = 0
                             /\ waiters' = {}
                        ELSE UNCHANGED <<tee, result, group, waiters>>
                     /\ ended' = NoEnd
             /\ local' = localFetch(local, p, g, cl, wOk)
    /\ seen' = NoSeen
    /\ last' = NoLast
    /\ UNCHANGED <<cidn, mut, call, adm, cfg, origin, changes, store, req, teeCache>>

\* A direct copy check without the length comparison.
copyFailedDirectNoLength(cerr, n, cl) == cerr

\* cacheFileDirect: the copy failed, or fell short of the declared length.
copyFailedDirect(cerr, n, cl) == cerr \/ (cl > 0 /\ n # cl)

\* A tee copy check that tolerates every copy error.
copyFailedTeeLengthOnly(cerr, n, cl) == cl > 0 /\ n # cl

\* cacheFileTee's goroutine: the copy failed, or fell short of the declared length.
copyFailedTee(cerr, n, cl) == cerr \/ (cl > 0 /\ n # cl)

\* Cancel on a failed copy, else Commit, which may itself fail.
transferOutcome(cerr, n, cl, cOk) ==
    IF (IF cfg.tee THEN copyFailedTee(cerr, n, cl) ELSE copyFailedDirect(cerr, n, cl))
    THEN "cancelled"
    ELSE IF ~cOk THEN "commitErr"
    ELSE "committed"

\* teeResponse.Close: only the last user of a finished session tears it down.
closeMap(t) == IF t.swmrClosed /\ t.using = 0 THEN 0 ELSE teeCache
closeTee(t) == IF t.swmrClosed /\ t.using = 0 THEN [t EXCEPT !.tmpClosed = TRUE] ELSE t

\* The bytes a copy can have moved: all of the body, or a part when it failed.
Copied(cerr, ver) ==
    IF cerr THEN {n \in Sizes : n < ver \/ n = 0} ELSE {ver}

\* A producer that closes the SWMR only after a Commit.
producerExitOpenOnError(t, n, o) ==
    [t EXCEPT !.written = n, !.swmrClosed = (o = "committed"), !.out = o]

\* The session when the producer goroutine returns: the deferred swmr.Close
\* has run on every path.
producerExit(t, n, o) ==
    [t EXCEPT !.written = n, !.swmrClosed = TRUE, !.out = o]

\* The calls a producer made on its Writer when it returns: Cancel or Commit,
\* and the deferred Close.
producerCalls(o) ==
    {"Writer", IF o = "cancelled" THEN "Cancel" ELSE "Commit", "Close"}

\* The producer's second part: copy, Cancel or Commit, and the deferred closes.
Transfer(p) ==
    /\ prod[p].pc = "copy"
    /\ producerCtxLive(p)
    /\ \E cerr \in BOOLEAN, cOk \in BOOLEAN :
       \E n \in Copied(cerr, prod[p].ver) :
         LET o == transferOutcome(cerr, n, prod[p].cl, cOk)
             t == producerExit(tee[p], n, o)
         IN  /\ ended' = Did(Ended(p, o, cerr, n), "ok", prod[p].cl, producerCalls(o))
             /\ seen' = NoSeen
             /\ local' = localTransfer(local, p, prod[p].ver, n, o)
             /\ prod' = [prod EXCEPT ![p] = [NoProd EXCEPT !.pc = "end"]]
             /\ store' = IF o = "committed" THEN [ver |-> prod[p].ver, n |-> n] ELSE store
             /\ IF cfg.tee
                THEN /\ teeCache' = closeMap(t)
                     /\ tee' = Forget([tee EXCEPT ![p] = closeTee(t)], req, teeCache',
                                      result, prod')
                     /\ UNCHANGED <<result, group, waiters>>
                ELSE /\ result' = Delivered(IF o = "committed" THEN "nil" ELSE "other", 0)
                     /\ group' = 0
                     /\ waiters' = {}
                     /\ UNCHANGED <<tee, teeCache>>
    /\ last' = NoLast
    /\ UNCHANGED <<cidn, mut, call, adm, cfg, origin, changes, req>>

\* ---------------------------------------------------------------- tee serving
\* teeResponse.ServeHTTP takes a reader on the session's shared buffer.
TeeOpen(r) ==
    /\ req[r].pc = "teeServe"
    /\ tee' = [tee EXCEPT ![req[r].tee] = [@ EXCEPT !.using = @ + 1]]
    /\ req' = [req EXCEPT ![r] = [@ EXCEPT !.pc = "teeRead"]]
    /\ last' = NoLast
    /\ ended' = NoEnd
    /\ seen' = NoSeen
    /\ UNCHANGED <<cidn, mut, call, adm, local, cfg, origin, changes, store, group, waiters, result, prod, teeCache>>

\* What teeResponse.ServeHTTP sends: HEAD the declared size, GET the bytes
\* the producer wrote (http.ServeContent cuts them at the declared size).
\* With a declared size above zero http.ServeContent sets Content-Length and
\* the origin's Last-Modified for both methods; otherwise neither is set.
teeServed(method, t) ==
    LET cl == IF t.size > 0 THEN t.size ELSE -1
        lm == IF t.size > 0 THEN t.ver ELSE -1
        ct == IF t.size > 0 THEN "detected" ELSE OctetStream
    IN  IF method = "HEAD"
        THEN Typed(Headers(Resp(200, "teehead", t.ver, t.size), cl, lm, -1), ct)
        ELSE Typed(Headers(Resp(200, "tee", t.ver,
                                IF t.size >= 0 /\ t.written > t.size THEN t.size ELSE t.written),
                           cl, lm, -1), ct)

\* The request has read the session to its end, closes its reader and runs
\* its deferred tee.Close.
TeeDone(r) ==
    /\ req[r].pc = "teeRead"
    /\ LET id == req[r].tee
           t == [tee[id] EXCEPT !.using = @ - 1]
       IN  /\ \E m \in Methods :
                /\ m = "HEAD" \/ tee[id].swmrClosed
                /\ last' = [WrittenFor(m, r, req[r], teeServed(m, tee[id]))
                               EXCEPT !.sess = tee[id].out]
           /\ req' = [req EXCEPT ![r] = DoneReq]
           /\ teeCache' = closeMap(t)
           /\ tee' = Forget([tee EXCEPT ![id] = closeTee(t)], req', teeCache', result, prod)
    /\ ended' = NoEnd
    /\ seen' = NoSeen
    /\ UNCHANGED <<cidn, mut, call, adm, local, cfg, origin, changes, store, group, waiters, result, prod>>

\* ---------------------------------------------------------------- system
Next ==
    \/ OriginChange
    \/ \E r \in Reqs : Stat(r)
    \/ \E r \in Reqs : Serve(r)
    \/ \E r \in Reqs : DoChan(r)
    \/ \E r \in Reqs : CancelCtx(r)
    \/ \E r \in Reqs : Receive(r)
    \/ \E r \in Reqs : SelectCtx(r)
    \/ \E p \in Reqs : Fetch(p)
    \/ \E p \in Reqs : Transfer(p)
    \/ \E r \in Reqs : TeeOpen(r)
    \/ \E r \in Reqs : TeeDone(r)

Spec == Init /\ [][Next]_vars

\* Goroutines that can run do run, and a transfer from the origin ends.
Fairness == \A p \in Reqs : WF_vars(Fetch(p)) /\ WF_vars(Transfer(p))

\* A request serving from a tee session goes on as well: it creates its
\* reader and, at the end of the stream, returns.
TeeFairness ==
    Fairness /\ \A r \in Reqs : WF_vars(TeeOpen(r)) /\ WF_vars(TeeDone(r))

\* ---------------------------------------------------------------- ServeHTTP
\* Strings are sequences of one-character strings.
HasPrefix(str, pre) == Len(pre) <= Len(str) /\ SubSeq(str, 1, Len(pre)) = pre

HasSuffix(str, suf) ==
    Len(suf) <= Len(str) /\ SubSeq(str, Len(str) - Len(suf) + 1, Len(str)) = suf

Contains(str, c) == \E i \in 1..Len(str) : str[i] = c

\* strings.Split(str, "/"): the segments between the slashes, empty ones too.
RECURSIVE Split(_)
Split(str) ==
    IF ~Contains(str, "/") THEN <<str>>
    ELSE LET i == CHOOSE k \in 1..Len(str) :
                     str[k] = "/" /\ \A j \in 1..(k - 1) : str[j] # "/"
         IN  <<SubSeq(str, 1, i - 1)>> \o Split(SubSeq(str, i + 1, Len(str)))

\* strings.Join(segs, "/").
RECURSIVE Join(_)
Join(segs) ==
    IF segs = <<>> THEN <<>>
    ELSE IF Len(segs) = 1 THEN segs[1]
    ELSE segs[1] \o <<"/">> \o Join(Tail(segs))

\* A loop that keeps the empty segments.
RECURSIVE cleanSegmentsKeepEmpty(_, _)
cleanSegmentsKeepEmpty(ps, out) ==
    IF ps = <<>> THEN out
    ELSE LET seg == Head(ps)
         IN  IF seg = <<".">> THEN cleanSegmentsKeepEmpty(Tail(ps), out)
             ELSE IF seg = <<".", ".">>
             THEN cleanSegmentsKeepEmpty(Tail(ps),
                      IF Len(out) > 0 THEN SubSeq(out, 1, Len(out) - 1) ELSE out)
             ELSE cleanSegmentsKeepEmpty(Tail(ps), Append(out, seg))

\* A loop that drops ".." without dropping the segment before it.
RECURSIVE cleanSegmentsNoPop(_, _)
cleanSegmentsNoPop(ps, out) ==
    IF ps = <<>> THEN out
    ELSE LET seg == Head(ps)
         IN  IF seg = <<>> \/ seg = <<".">> \/ seg = <<".", ".">>
             THEN cleanSegmentsNoPop(Tail(ps), out)
             ELSE cleanSegmentsNoPop(Tail(ps), Append(out, seg))

\* The loop of cleanPath: empty and "." segments are dropped, ".." drops the
\* segment before it.
RECURSIVE cleanSegments(_, _)
cleanSegments(ps, out) ==
    IF ps = <<>> THEN out
    ELSE LET seg == Head(ps)
         IN  IF seg = <<>> \/ seg = <<".">> THEN cleanSegments(Tail(ps), out)
             ELSE IF seg = <<".", ".">>
             THEN cleanSegments(Tail(ps),
                                IF Len(out) > 0 THEN SubSeq(out, 1, Len(out) - 1) ELSE out)
             ELSE cleanSegments(Tail(ps), Append(out, seg))

cleanPath(path) ==
    LET out == cleanSegments(Split(path), <<>>)
    IN  IF Len(out) = 0 THEN <<"/">> ELSE <<"/">> \o Join(out)

\* strings.TrimSpace, for the blank.
RECURSIVE TrimSpace(_)
TrimSpace(str) ==
    IF str # <<>> /\ Head(str) = " " THEN TrimSpace(Tail(str))
    ELSE IF str # <<>> /\ str[Len(str)] = " " THEN TrimSpace(SubSeq(str, 1, Len(str) - 1))
    ELSE str

MaxDomainLen == 255

ForbiddenChars ==
    {"`", "~", "!", "@", "#", "$", "%", "^", "&", "*", "(", ")", "+", "=", "{", "}", "[",
     "]", "|", "\\", "\"", "'", ";", ":", ">", "<", "?", "/"}

\* A validation that asks for a dot in the host.
isValidDomainWithDot(domain) ==
    LET host == TrimSpace(domain)
    IN  /\ Len(host) # 0
        /\ Len(host) <= MaxDomainLen
        /\ ~HasPrefix(host, <<"-">>) /\ ~HasSuffix(host, <<"-">>)
        /\ ~HasPrefix(host, <<"_">>) /\ ~HasSuffix(host, <<"_">>)
        /\ ~HasPrefix(host, <<".">>)
        /\ \A i \in 1..Len(host) : host[i] \notin ForbiddenChars
        /\ Contains(host, ".")

isValidDomain(domain) ==
    LET host == TrimSpace(domain)
    IN  /\ Len(host) # 0
        /\ Len(host) <= MaxDomainLen
        /\ ~HasPrefix(host, <<"-">>) /\ ~HasSuffix(host, <<"-">>)
        /\ ~HasPrefix(host, <<"_">>) /\ ~HasSuffix(host, <<"_">>)
        /\ ~HasPrefix(host, <<".">>)
        /\ \A i \in 1..Len(host) : host[i] \notin ForbiddenChars

\* A method check that lets every method pass.
MethodAllowedAll(method) == TRUE

\* ServeHTTP's first check.
MethodAllowed(method) == method = "GET" \/ method = "HEAD"

\* The BlockSuffix loop.
Blocked(urlpath, suffixes) == \E suf \in suffixes : HasSuffix(urlpath, suf)

\* notFoundResponse: the configured handler, or http.NotFound.
NotFoundOut(c) == [NoOut EXCEPT !.kind = IF c.notFound THEN "notFoundHandler" ELSE "404"]

\* The host of a path "/host/rest": a split that takes the Host header's
\* host and leaves the path whole.
splitHostKeepHeader(urlpath, rhost) == [host |-> rhost, path |-> urlpath]

\* HostFromFirstPath: the first segment is the host, the rest the path.
splitHost(urlpath, rhost) ==
    LET paths == Split(Tail(urlpath))
    IN  [host |-> paths[1], path |-> <<"/">> \o Join(Tail(paths))]

\* ServeHTTP up to the hand-over to directResponse / cacheResponse: what is
\* answered here, or the upstream URL's host and path and the host of the
\* cache key (r.Host).
Admitted(method, path, hostHeader, c) ==
    IF ~MethodAllowed(method) THEN [NoOut EXCEPT !.kind = "405"]
    ELSE LET urlpath == cleanPath(path)
         IN  IF Len(urlpath) = 0 \/ HasSuffix(urlpath, <<"/">>) THEN NotFoundOut(c)
             ELSE IF Blocked(urlpath, c.blockSuffix) THEN [NoOut EXCEPT !.kind = "403"]
             ELSE LET rhost == IF c.host # <<>> THEN c.host ELSE hostHeader
                      hp == IF c.hostFromFirstPath THEN splitHost(urlpath, rhost)
                            ELSE [host |-> rhost, path |-> urlpath]
                  IN  IF c.hostFromFirstPath /\ hp.path = <<"/">> THEN NotFoundOut(c)
                      ELSE IF ~Contains(hp.host, ".") THEN NotFoundOut(c)
                      ELSE IF c.baseDomain # <<>> /\ ~HasSuffix(hp.host, c.baseDomain)
                      THEN NotFoundOut(c)
                      ELSE [kind |-> "forward",
                            host |-> IF c.baseDomain # <<>>
                                     THEN SubSeq(hp.host, 1, Len(hp.host) - Len(c.baseDomain))
                                     ELSE hp.host,
                            path |-> hp.path,
                            key |-> hp.host]

MaxPathLen == 7

PathChars == {"/", ".", "a"}

\* The path of a request the server has parsed: empty, or rooted.
Paths == {<<>>} \cup {<<"/">> \o tl : tl \in UNION {[1..k -> PathChars] : k \in 0..(MaxPathLen - 1)}}

HostHeaders == {<<"a">>, <<"a", ".", "a">>, <<"-", ".", "a">>}

Confs ==
    [blockSuffix : {{}, {<<".", "a">>}}, hostFromFirstPath : BOOLEAN,
     baseDomain : {<<>>, <<".", "a">>}, host : {<<>>, <<"a", ".", "a">>}, notFound : BOOLEAN]

\* One request at ServeHTTP, of any method, path, Host header and
\* configuration; the cache path is idle.
InitAdmit ==
    /\ cfg = [tee |-> FALSE, noRedirect |-> FALSE, checkSync |-> FALSE]
    /\ origin = 1
    /\ changes = 0
    /\ store = NoObj
    /\ req = [r \in Reqs |-> NoReq]
    /\ group = 0
    /\ waiters = {}
    /\ result = [r \in Reqs |-> NoResult]
    /\ prod = [r \in Reqs |-> NoProd]
    /\ teeCache = 0
    /\ tee = [r \in Reqs |-> NoTee]
    /\ last = NoLast
    /\ ended = NoEnd
    /\ seen = NoSeen
    /\ local = NoLocal
    /\ adm \in [pc : {"new"}, method : {"GET", "HEAD", "POST"}, path : Paths,
                 host : HostHeaders, conf : Confs, out : {NoOut}]
    /\ call = NoCall
    /\ mut = NoMut
    /\ cidn = NoCidn

ServeHTTP ==
    /\ adm.pc = "new"
    /\ adm' = [adm EXCEPT !.pc = "done",
                          !.out = Admitted(adm.method, adm.path, adm.host, adm.conf)]
    /\ UNCHANGED <<cfg, origin, changes, store, req, group, waiters, result, prod, teeCache,
                   tee, last, ended, seen, local, call, mut, cidn>>

AdmitSpec == InitAdmit /\ [][ServeHTTP]_vars

\* Tee mode with a local cache directory, from an empty store and an empty
\* directory.
InitLocal ==
    /\ cfg \in {c \in [tee : BOOLEAN, noRedirect : BOOLEAN, checkSync : BOOLEAN] :
                  c.tee /\ ~c.noRedirect}
    /\ origin = 1
    /\ changes = 0
    /\ store = NoObj
    /\ req = [r \in Reqs |-> NoReq]
    /\ group = 0
    /\ waiters = {}
    /\ result = [r \in Reqs |-> NoResult]
    /\ prod = [r \in Reqs |-> NoProd]
    /\ teeCache = 0
    /\ tee = [r \in Reqs |-> NoTee]
    /\ last = NoLast
    /\ ended = NoEnd
    /\ seen = NoSeen
    /\ local = [NoLocal EXCEPT !.dir = TRUE]
    /\ adm = NoAdm
    /\ call = NoCall
    /\ mut = NoMut
    /\ cidn = NoCidn

LocalSpec == InitLocal /\ [][Next]_vars

\* io.Copy under way: a part of the body is in the temp file at <K>.tmp.
CopyProgress(p) ==
    /\ cfg.tee /\ local.dir
    /\ prod[p].pc = "copy"
    /\ local.fd[p] # 0
    /\ \E k \in 1..prod[p].ver :
         /\ local.data[local.fd[p]].n < k
         /\ local' = localWrite(local, p, prod[p].ver, k)
    /\ last' = NoLast
    /\ ended' = NoEnd
    /\ seen' = NoSeen
    /\ UNCHANGED <<cidn, mut, call, adm, cfg, origin, changes, store, req, group, waiters,
                   result, prod, teeCache, tee>>

\* os.Stat of the local path of the key K + ".tmp", which is the path of the
\* temp file of K's fetch.
tmpKeyStat ==
    IF local.tmp = 0 THEN Missing
    ELSE File(local.data[local.tmp].ver, local.data[local.tmp].n)

\* A request for the key K + ".tmp" that the local fast path answers.
ServeTmpKey ==
    /\ cfg.tee /\ local.dir
    /\ \E probe \in ProbeOutcomes, openOk \in BOOLEAN, m \in Methods :
         /\ tryServeFromLocalCache(tmpKeyStat, cfg.checkSync, probe # "fail",
                                   SourceSize(probe), openOk)
         /\ last' = [NoLast EXCEPT !.resp = localServed(m, tmpKeyStat), !.method = m,
                                   !.via = "tmpKey"]
    /\ ended' = NoEnd
    /\ seen' = NoSeen
    /\ UNCHANGED <<cidn, mut, call, adm, local, cfg, origin, changes, store, req, group,
                   waiters, result, prod, teeCache, tee>>

TmpKeyNext ==
    \/ Next
    \/ \E p \in Reqs : CopyProgress(p)
    \/ ServeTmpKey

\* Tee mode with a local cache directory and CheckSyncTimeout = 0, the copy
\* seen in progress, and requests for the key K + ".tmp" besides those for K.
InitTmpKey == InitLocal /\ ~cfg.checkSync

TmpKeySpec == InitTmpKey /\ [][TmpKeyNext]_vars

\* The runs from an empty store with CheckSyncTimeout = 0 and redirects on.
InitCold == Init /\ ~cfg.checkSync /\ ~cfg.noRedirect /\ store = NoObj

FairSpec == InitCold /\ [][Next]_vars /\ Fairness

TeeFairSpec == InitCold /\ [][Next]_vars /\ TeeFairness

\* ---------------------------------------------------------------- helper calls
\* One call of a helper function with arguments of any kind the program can
\* pass; the cache path and ServeHTTP are idle.
LocalFiles == {Missing, Dir} \cup {File(0, n) : n \in 0..MaxLocalSize}

\* tryServeFromLocalCache(w, r, localPath, file): the request's method, what
\* is at localPath, CheckSyncTimeout > 0, a CIDN client, the origin's answer
\* to the probe and whether os.Open succeeds.
TryCalls ==
    {c \in [fn : {"tryServeFromLocalCache"}, pc : {"new"}, method : Methods, fi : LocalFiles,
            checkSync : BOOLEAN, cidn : BOOLEAN, probeOk : BOOLEAN,
            sourceSize : -1..MaxLocalSize, openOk : BOOLEAN, served : {FALSE},
            resp : {NoResp}] :
        ~c.probeOk => c.sourceSize = -1}

\* What httpHead / httpGet return: the error, whether the metadata and the
\* body are non-nil, and the state of the response's body.
NoHttp == [err |-> "none", info |-> FALSE, body |-> FALSE, respBody |-> "none"]

\* httpHead: ErrNotOK for a status other than 200, else the metadata; the
\* response's body is closed on return.
httpHead(reqOk, doOk, status) ==
    IF ~reqOk THEN [NoHttp EXCEPT !.err = "request"]
    ELSE IF ~doOk THEN [NoHttp EXCEPT !.err = "transport"]
    ELSE IF status # 200 THEN [NoHttp EXCEPT !.err = "notok", !.respBody = "closed"]
    ELSE [NoHttp EXCEPT !.info = TRUE, !.respBody = "closed"]

\* An httpGet that takes every 2xx status for success.
httpGetAnySuccess(reqOk, doOk, status) ==
    IF ~reqOk THEN [NoHttp EXCEPT !.err = "request"]
    ELSE IF ~doOk THEN [NoHttp EXCEPT !.err = "transport"]
    ELSE IF status < 200 \/ status > 299
         THEN [NoHttp EXCEPT !.err = "notok", !.respBody = "closed"]
    ELSE [NoHttp EXCEPT !.info = TRUE, !.body = TRUE, !.respBody = "open"]

\* httpGet: ErrNotOK for a status other than 200, the response's body closed;
\* else the body, left open for the caller, and the metadata.
httpGet(reqOk, doOk, status) ==
    IF ~reqOk THEN [NoHttp EXCEPT !.err = "request"]
    ELSE IF ~doOk THEN [NoHttp EXCEPT !.err = "transport"]
    ELSE IF status # 200 THEN [NoHttp EXCEPT !.err = "notok", !.respBody = "closed"]
    ELSE [NoHttp EXCEPT !.info = TRUE, !.body = TRUE, !.respBody = "open"]

\* The statuses an origin answers with (after the client followed redirects).
Statuses == {200, 201, 204, 206, 304, 400, 403, 404, 500, 503}

\* httpHead / httpGet (ctx, client, p): whether the request can be built,
\* whether client.Do returns a response, and the response's status.
HttpCalls ==
    {c \in [fn : {"httpHead", "httpGet"}, pc : {"new"}, reqOk : BOOLEAN, doOk : BOOLEAN,
            status : Statuses \cup {0}, out : {NoHttp}] :
        c.status = 0 <=> ~(c.reqOk /\ c.doOk)}

\* Every string over the path characters, rooted or not.
PathStrings == UNION {[1..k -> PathChars] : k \in 0..MaxPathLen}

CleanCalls == [fn : {"cleanPath"}, pc : {"new"}, path : PathStrings, out : {<<>>}]

MaxHostLen == 4

HostChars == {" ", "-", "_", ".", "a", "!"}

\* n times the letter a.
Letters(n) == [i \in 1..n |-> "a"]

\* The hosts isValidDomain is called with: every short string over the
\* characters its checks tell apart, a host with each blocked character, and
\* hosts at the length limit.
Hosts ==
    UNION {[1..k -> HostChars] : k \in 0..MaxHostLen}
      \cup {<<"a", c, "a">> : c \in ForbiddenChars}
      \cup {Letters(MaxDomainLen), Letters(MaxDomainLen + 1),
            <<" ">> \o Letters(MaxDomainLen) \o <<" ">>,
            <<" ">> \o Letters(MaxDomainLen + 1),
            Letters(MaxDomainLen - 1) \o <<"-">>}

DomainCalls == [fn : {"isValidDomain"}, pc : {"new"}, host : Hosts, out : {FALSE}]

\* A Close that does not look at the readers in use.
CloseIgnoringReaders(c) ==
    IF ~c.swmrClosed
    THEN [entry |-> c.entry, tmp |-> c.tmp, onDisk |-> c.onDisk, err |-> FALSE]
    ELSE [entry |-> "none", tmp |-> "closed",
          onDisk |-> IF c.closeOk /\ ~c.localCachePath THEN FALSE ELSE c.onDisk,
          err |-> ~c.closeOk]

\* teeResponse.Close on a session: the map's entry for K, the temp file's
\* handle and whether the file is on disk afterwards, and the error returned.
Close(c) ==
    IF ~c.swmrClosed \/ c.using # 0
    THEN [entry |-> c.entry, tmp |-> c.tmp, onDisk |-> c.onDisk, err |-> FALSE]
    ELSE [entry |-> "none", tmp |-> "closed",
          onDisk |-> IF c.closeOk /\ ~c.localCachePath THEN FALSE ELSE c.onDisk,
          err |-> ~c.closeOk]

\* teeResponse.Close(): the session's SWMR and readers, its temp file (a
\* handle closed before cannot be closed again), whether a local cache path
\* is set, what the map holds under K, and whether tmp.Close succeeds.
CloseCalls ==
    {c \in [fn : {"Close"}, pc : {"new"}, swmrClosed : BOOLEAN, using : 0..NumReq,
            tmp : {"open", "closed"}, onDisk : BOOLEAN, localCachePath : BOOLEAN,
            entry : {"none", "own", "other"}, closeOk : BOOLEAN,
            out : {[entry |-> "none", tmp |-> "open", onDisk |-> FALSE, err |-> FALSE]}] :
        c.tmp = "closed" => ~c.closeOk /\ c.swmrClosed /\ c.using = 0}

Calls == TryCalls \cup HttpCalls \cup CleanCalls \cup DomainCalls \cup CloseCalls

InitCall ==
    /\ cfg = [tee |-> FALSE, noRedirect |-> FALSE, checkSync |-> FALSE]
    /\ origin = 1
    /\ changes = 0
    /\ store = NoObj
    /\ req = [r \in Reqs |-> NoReq]
    /\ group = 0
    /\ waiters = {}
    /\ result = [r \in Reqs |-> NoResult]
    /\ prod = [r \in Reqs |-> NoProd]
    /\ teeCache = 0
    /\ tee = [r \in Reqs |-> NoTee]
    /\ last = NoLast
    /\ ended = NoEnd
    /\ seen = NoSeen
    /\ local = NoLocal
    /\ adm = NoAdm
    /\ call \in Calls
    /\ mut = NoMut
    /\ cidn = NoCidn

Idle ==
    UNCHANGED <<cfg, origin, changes, store, req, group, waiters, result, prod, teeCache, tee,
                last, ended, seen, local, adm, mut, cidn>>

CallTryServe ==
    /\ call.pc = "new"
    /\ call.fn = "tryServeFromLocalCache"
    /\ LET served == tryServeFromLocalCache(call.fi, call.checkSync /\ ~call.cidn,
                                            call.probeOk, call.sourceSize, call.openOk)
       IN  call' = [call EXCEPT !.pc = "done", !.served = served,
                                !.resp = IF served THEN localServed(call.method, call.fi)
                                         ELSE NoResp]
    /\ Idle

CallHttp ==
    /\ call.pc = "new"
    /\ call.fn \in {"httpHead", "httpGet"}
    /\ call' = [call EXCEPT !.pc = "done",
                            !.out = IF call.fn = "httpHead"
                                    THEN httpHead(call.reqOk, call.doOk, call.status)
                                    ELSE httpGet(call.reqOk, call.doOk, call.status)]
    /\ Idle

CallCleanPath ==
    /\ call.pc = "new"
    /\ call.fn = "cleanPath"
    /\ call' = [call EXCEPT !.pc = "done", !.out = cleanPath(call.path)]
    /\ Idle

CallIsValidDomain ==
    /\ call.pc = "new"
    /\ call.fn = "isValidDomain"
    /\ call' = [call EXCEPT !.pc = "done", !.out = isValidDomain(call.host)]
    /\ Idle

CallClose ==
    /\ call.pc = "new"
    /\ call.fn = "Close"
    /\ call' = [call EXCEPT !.pc = "done", !.out = Close(call)]
    /\ Idle

CallNext ==
    \/ CallClose
    \/ CallTryServe
    \/ CallHttp
    \/ CallCleanPath
    \/ CallIsValidDomain

CallSpec == InitCall /\ [][CallNext]_vars

\* ---------------------------------------------------------------- in-flight table
\* The channel-based cacheResponse: m.mut holds, per key, the channel of the
\* request that owns the key; the others wait for the channel to be closed
\* and try again. A channel is named after the request that made it.
NumArrivals == 3

Arrivals == 1..NumArrivals

\* m.mut.Delete(file).
deleteEntry(m, id) == [m EXCEPT !.table = 0]

\* close(closeCh).
closeChannel(m, id) == [m EXCEPT !.closed = @ \cup {id}]

\* A doneCache that releases the waiters first.
doneCacheReleasesFirst(m, id) == closeChannel(m, id)

\* doneCache, first statement: the entry is deleted.
doneCacheFirst(m, id) == deleteEntry(m, id)

\* doneCache, second statement: the channel is closed.
doneCacheSecond(m, id) == closeChannel(m, id)

InitMut ==
    /\ cfg = [tee |-> FALSE, noRedirect |-> FALSE, checkSync |-> FALSE]
    /\ origin = 1
    /\ changes = 0
    /\ store = NoObj
    /\ req = [r \in Reqs |-> NoReq]
    /\ group = 0
    /\ waiters = {}
    /\ result = [r \in Reqs |-> NoResult]
    /\ prod = [r \in Reqs |-> NoProd]
    /\ teeCache = 0
    /\ tee = [r \in Reqs |-> NoTee]
    /\ last = NoLast
    /\ ended = NoEnd
    /\ seen = NoSeen
    /\ local = NoLocal
    /\ adm = NoAdm
    /\ call = NoCall
    /\ mut = [table |-> 0, closed |-> {}, pc |-> [r \in Arrivals |-> "new"],
              ch |-> [r \in Arrivals |-> 0], cached |-> FALSE]
    /\ cidn = NoCidn

Quiet ==
    UNCHANGED <<cfg, origin, changes, store, req, group, waiters, result, prod, teeCache, tee,
                last, ended, seen, local, adm, call, cidn>>

\* m.mut.LoadOrStore(file, make(chan struct{})), on arrival and after each
\* release: the request becomes the owner, or gets the owner's channel.
LoadOrStore(r) ==
    /\ mut.pc[r] \in {"new", "released"}
    /\ mut' = IF mut.table = 0
              THEN [mut EXCEPT !.table = r, !.pc[r] = "owner", !.ch[r] = r]
              ELSE [mut EXCEPT !.pc[r] = "wait", !.ch[r] = mut.table]
    /\ Quiet

\* The waiter's select: its channel was closed.
Released(r) ==
    /\ mut.pc[r] = "wait"
    /\ mut.ch[r] \in mut.closed
    /\ mut' = [mut EXCEPT !.pc[r] = "released"]
    /\ Quiet

\* The waiter's select: the request's context ended.
WaitCtxDone(r) ==
    /\ mut.pc[r] = "wait"
    /\ mut' = [mut EXCEPT !.pc[r] = "done"]
    /\ Quiet

\* The owner stats the store: cancelled or a hit it serves, then doneCache;
\* else it starts the producer goroutine.
OwnerStat(r) ==
    /\ mut.pc[r] = "owner"
    /\ \E st \in {"canceled", "error", "ok"} :
         mut' = [mut EXCEPT !.pc[r] = IF st = "canceled" THEN "doneCache"
                                      ELSE IF st = "ok" /\ mut.cached THEN "hit"
                                      ELSE "cacheFile"]
    /\ Quiet

\* The owner has served the entry it found.
OwnerServed(r) ==
    /\ mut.pc[r] = "hit"
    /\ mut' = [mut EXCEPT !.pc[r] = "doneCache"]
    /\ Quiet

\* The goroutine's cacheFile returns, having committed the object or not.
CacheFileReturns(r) ==
    /\ mut.pc[r] = "cacheFile"
    /\ \E ok \in BOOLEAN :
         mut' = [mut EXCEPT !.pc[r] = "doneCache", !.cached = @ \/ ok]
    /\ Quiet

\* doneCache, statement by statement.
DoneCacheDelete(r) ==
    /\ mut.pc[r] = "doneCache"
    /\ mut' = [doneCacheFirst(mut, mut.ch[r]) EXCEPT !.pc[r] = "close"]
    /\ Quiet

DoneCacheClose(r) ==
    /\ mut.pc[r] = "close"
    /\ mut' = [doneCacheSecond(mut, mut.ch[r]) EXCEPT !.pc[r] = "done"]
    /\ Quiet

MutNext ==
    \/ \E r \in Arrivals : LoadOrStore(r)
    \/ \E r \in Arrivals : Released(r)
    \/ \E r \in Arrivals : WaitCtxDone(r)
    \/ \E r \in Arrivals : OwnerStat(r)
    \/ \E r \in Arrivals : OwnerServed(r)
    \/ \E r \in Arrivals : CacheFileReturns(r)
    \/ \E r \in Arrivals : DoneCacheDelete(r)
    \/ \E r \in Arrivals : DoneCacheClose(r)

MutSpec == InitMut /\ [][MutNext]_vars

\* ---------------------------------------------------------------- cacheFileWithCIDN
\* One call of cacheFileWithCIDN for the blob named "N" while the informer
\* also sees another blob, "O". The informer hands its events to the call's
\* handler in order; the handler forwards to statusChan (capacity 1).
Blobs == {"N", "O"}

MaxQueue == 2

\* The condition lists a failed blob can carry.
Conditions == {<<>>, <<"">>, <<"", "m1">>, <<"m1", "m2">>}

\* The first non-empty condition message, else the default text.
RECURSIVE FirstMessage(_)
FirstMessage(conds) ==
    IF conds = <<>> THEN "blob sync failed"
    ELSE IF Head(conds) # "" THEN Head(conds)
    ELSE FirstMessage(Tail(conds))

NoReturn == [kind |-> "none", msg |-> ""]

Return(kind, msg) == [kind |-> kind, msg |-> msg]

\* What the call returns for a blob in a terminal phase.
terminalReturn(phase, conds) ==
    IF phase = "succeeded" THEN Return("nil", "")
    ELSE Return("failed", FirstMessage(conds))

Terminal(phase) == phase \in {"succeeded", "failed"}

Exists(phase) == phase \notin {"absent", "deleted"}

\* The handler: AddFunc and UpdateFunc forward the named blob (an update
\* only when the phase changed), DeleteFunc forwards nil for every blob.
forwards(e) ==
    CASE e.type = "add" -> e.name = "N"
      [] e.type = "update" -> e.name = "N" /\ e.old # e.new
      [] e.type = "delete" -> TRUE

\* What the handler sends for an event.
message(e) ==
    IF e.type = "delete" THEN [nil |-> TRUE, phase |-> "none", conds |-> <<>>]
    ELSE [nil |-> FALSE, phase |-> e.new, conds |-> e.conds]

Event(type, name, old, new, conds) ==
    [type |-> type, name |-> name, old |-> old, new |-> new, conds |-> conds]

InitCidn ==
    /\ cfg = [tee |-> FALSE, noRedirect |-> FALSE, checkSync |-> FALSE]
    /\ origin = 1
    /\ changes = 0
    /\ store = NoObj
    /\ req = [r \in Reqs |-> NoReq]
    /\ group = 0
    /\ waiters = {}
    /\ result = [r \in Reqs |-> NoResult]
    /\ prod = [r \in Reqs |-> NoProd]
    /\ teeCache = 0
    /\ tee = [r \in Reqs |-> NoTee]
    /\ last = NoLast
    /\ ended = NoEnd
    /\ seen = NoSeen
    /\ local = NoLocal
    /\ adm = NoAdm
    /\ call = NoCall
    /\ mut = NoMut
    /\ \E pn \in {"absent", "pending", "running", "succeeded", "failed"},
          po \in {"absent", "running"}, c \in Conditions :
         /\ pn # "failed" => c = <<>>
         /\ cidn = [pc |-> "start", phase |-> [b \in Blobs |-> IF b = "N" THEN pn ELSE po],
                    was |-> {pn}, conds |-> c, queue |-> <<>>, chan |-> <<>>,
                    ctxDone |-> FALSE, ret |-> NoReturn]

Rest ==
    UNCHANGED <<cfg, origin, changes, store, req, group, waiters, result, prod, teeCache, tee,
                last, ended, seen, local, adm, call, mut>>

\* Lister().Get, Create when the blob is not found, and the switch on the
\* phase of the blob at hand.
CidnStart ==
    /\ cidn.pc = "start"
    /\ \E getErr \in BOOLEAN, createErr \in BOOLEAN :
         IF getErr THEN cidn' = [cidn EXCEPT !.pc = "returned", !.ret = Return("err", "")]
         ELSE IF ~Exists(cidn.phase["N"])
         THEN IF createErr
              THEN cidn' = [cidn EXCEPT !.pc = "returned", !.ret = Return("err", "")]
              ELSE cidn' = [cidn EXCEPT !.pc = "register", !.phase["N"] = "pending",
                                        !.was = @ \cup {"pending"}]
         ELSE IF Terminal(cidn.phase["N"])
         THEN cidn' = [cidn EXCEPT !.pc = "returned",
                                   !.ret = terminalReturn(cidn.phase["N"], cidn.conds)]
         ELSE cidn' = [cidn EXCEPT !.pc = "register"]
    /\ Rest

\* AddEventHandler: the informer replays the blobs it holds as add events.
CidnRegister ==
    /\ cidn.pc = "register"
    /\ \E ok \in BOOLEAN :
         IF ~ok THEN cidn' = [cidn EXCEPT !.pc = "returned", !.ret = Return("err", "")]
         ELSE LET adds(b) == IF Exists(cidn.phase[b])
                             THEN <<Event("add", b, cidn.phase[b], cidn.phase[b],
                                          IF b = "N" THEN cidn.conds ELSE <<>>)>>
                             ELSE <<>>
              IN  cidn' = [cidn EXCEPT !.pc = "watch", !.queue = adds("N") \o adds("O")]
    /\ Rest

\* The events a registered handler is told of.
Notified(c, e) == IF c.pc = "watch" THEN [c EXCEPT !.queue = Append(@, e)] ELSE c

\* The CIDN controller moves a blob on, another client creates the other
\* blob, or a blob is deleted.
BlobChange(b) ==
    /\ cidn.pc \in {"register", "watch"}
    /\ Len(cidn.queue) < MaxQueue
    /\ \E to \in {"pending", "running", "succeeded", "failed", "deleted"}, c \in Conditions :
         LET from == cidn.phase[b]
             moved == [cidn EXCEPT !.phase[b] = to,
                                   !.was = IF b = "N" THEN @ \cup {to} ELSE @,
                                   !.conds = IF b = "N" /\ to = "failed" THEN c ELSE @]
         IN  /\ (b = "N" /\ to = "failed") \/ c = <<>>
             /\ \/ from = "absent" /\ to = "pending" /\ b = "O"
                \/ from = "pending" /\ to = "running"
                \/ from = "running" /\ to \in {"succeeded", "failed"}
                \/ Exists(from) /\ to = "deleted"
             /\ cidn' = Notified(moved,
                                 IF to = "deleted" THEN Event("delete", b, from, to, <<>>)
                                 ELSE IF from = "absent" THEN Event("add", b, to, to, <<>>)
                                 ELSE Event("update", b, from, to, moved.conds))
    /\ Rest

\* An update that leaves the phase as it is.
BlobTouch(b) ==
    /\ cidn.pc = "watch"
    /\ Len(cidn.queue) < MaxQueue
    /\ Exists(cidn.phase[b])
    /\ cidn' = Notified(cidn, Event("update", b, cidn.phase[b], cidn.phase[b],
                                    IF b = "N" THEN cidn.conds ELSE <<>>))
    /\ Rest

\* The informer calls the handler with its next event.
Deliver ==
    /\ cidn.pc = "watch"
    /\ cidn.queue # <<>>
    /\ LET e == Head(cidn.queue)
       IN  IF forwards(e)
           THEN /\ cidn.chan = <<>>
                /\ cidn' = [cidn EXCEPT !.queue = Tail(@), !.chan = <<message(e)>>]
           ELSE cidn' = [cidn EXCEPT !.queue = Tail(@)]
    /\ Rest

\* The wait loop takes a blob from statusChan.
CidnReceive ==
    /\ cidn.pc = "watch"
    /\ cidn.chan # <<>>
    /\ LET m == Head(cidn.chan)
       IN  cidn' = IF m.nil
                   THEN [cidn EXCEPT !.chan = <<>>, !.pc = "returned",
                                     !.ret = Return("deleted", "")]
                   ELSE IF Terminal(m.phase)
                   THEN [cidn EXCEPT !.chan = <<>>, !.pc = "returned",
                                     !.ret = terminalReturn(m.phase, m.conds)]
                   ELSE [cidn EXCEPT !.chan = <<>>]
    /\ Rest

\* The call's context ends.
CidnCtxEnds ==
    /\ cidn.pc = "watch"
    /\ ~cidn.ctxDone
    /\ cidn' = [cidn EXCEPT !.ctxDone = TRUE]
    /\ Rest

\* The wait loop takes the ctx.Done case.
CidnCtxDone ==
    /\ cidn.pc = "watch"
    /\ cidn.ctxDone
    /\ cidn' = [cidn EXCEPT !.pc = "returned", !.ret = Return("ctx", "")]
    /\ Rest

CidnNext ==
    \/ CidnStart
    \/ CidnRegister
    \/ \E b \in Blobs : BlobChange(b)
    \/ \E b \in Blobs : BlobTouch(b)
    \/ Deliver
    \/ CidnReceive
    \/ CidnCtxEnds
    \/ CidnCtxDone

CidnSpec == InitCidn /\ [][CidnNext]_vars

\* ---------------------------------------------------------------- claims
\* A producer is active from its origin GET until its Writer is committed or
\* cancelled.
Active(p) == prod[p].pc = "copy"

\* The origin GETs issued so far.
Gets == Cardinality({p \in Reqs : prod[p].pc \in {"copy", "end"}})

\* C1: at most one refresh producer for K is active at any time.
C1_OneActiveProducer == Cardinality({p \in Reqs : Active(p)}) <= 1

\* C2: while all the requests are in progress together, each after a Stat
\* that found nothing, the store still empty and no producer ended (so none
\* failed), at most one origin GET has been issued.
C2_OneOriginGet ==
    (/\ store = NoObj
     /\ \A r \in Reqs : req[r].pc \notin {"idle", "done"} /\ req[r].cacheInfo = NoObj
     /\ \A p \in Reqs : prod[p].pc # "end")
    => Gets <= 1

C5_BodyIsCommitted ==
    /\ last.resp.kind \in {"body", "signget"} =>
           store # NoObj /\ last.resp.ver = store.ver /\ last.resp.n = store.n
    /\ last.resp.kind = "tee" => last.sess = "committed"

\* C6: a producer whose starting request is gone still ends, and when it
\* ends in a Commit the store holds what it copied.
C6_ProducerOutlivesClient ==
    /\ \A p \in Reqs : (Active(p) /\ req[p].pc = "done") ~> (prod[p].pc = "end")
    /\ [](ended.out = "committed" => store # NoObj /\ store.n = ended.n)

\* C6 witness: direct mode; the producer of a request that is gone has just
\* committed.
C6_Witness ==
    /\ ~cfg.tee
    /\ ended.p # 0
    /\ ended.out = "committed"
    /\ req[ended.p].pc = "done"

C8_ErrorMapping ==
    [][\A r \in Reqs :
         (/\ req[r].pc \in {"wait", "race"}
          /\ result[r].err \in {"notok", "other"}
          /\ result'[r] = NoResult
          /\ last'.resp.kind # "canceled")
         => IF req[r].cacheInfo # NoObj
            THEN req'[r].pc = "serve" /\ req'[r].via = "stale"
            ELSE last'.resp = IF result[r].err = "notok" THEN notFoundResponse
                              ELSE errorResponse("other")]_vars

\* C9: a request whose context ends while it is blocked waiting for the
\* result answers 500 with the cancellation text, and the step changes
\* neither the producer nor the store.
C9_CancelWhileWaiting ==
    [][\A r \in Reqs :
         (req[r].pc = "wait" /\ result[r] = NoResult /\ req'[r] # req[r])
         => /\ req'[r].pc = "done"
            /\ last'.r = r
            /\ last'.resp = errorResponse("canceled")
            /\ prod' = prod /\ group' = group /\ store' = store /\ tee' = tee]_vars

\* C9 witness: a waiting request has just been cancelled while a producer is
\* copying.
C9_Witness == last.via = "waitcancel" /\ \E p \in Reqs : Active(p)

\* C10: the answer after the successful refresh of a stale entry describes
\* the store's new object.
C10_ResponseDescribesNew ==
    (/\ last.via = "refreshed"
     /\ last.cacheInfo # NoObj
     /\ last.cacheInfo.n # store.n
     /\ last.resp.status \in {200, 302})
    => last.resp.ver = store.ver /\ last.resp.n = store.n

\* C11: a HEAD and a GET that are both answered 200 from the store while the
\* same object is committed carry the same Content-Length, Last-Modified and
\* ETag.  Checked on two responses written one right after the other.
FromStore(resp) == resp.status = 200 /\ resp.kind \in {"head", "headbare", "body"}

IsHead(resp) == resp.kind \in {"head", "headbare"}

SameHeaders(a, b) == a.cl = b.cl /\ a.lm = b.lm /\ a.etag = b.etag

C11_HeadGetParity ==
    [][(/\ FromStore(last.resp) /\ FromStore(last'.resp)
        /\ IsHead(last.resp) # IsHead(last'.resp)
        /\ store' = store)
       => SameHeaders(last.resp, last'.resp)]_vars

\* C12: the freshness decision.  With CheckSyncTimeout = 0 an entry that Stat
\* found is served without a probe of the origin; with CheckSyncTimeout > 0
\* and an answered probe it is served exactly when its size is not 0 and the
\* origin's size is unknown (<= 0) or equal to it, and refreshed otherwise; a
\* request whose Stat found no entry always refreshes.
Decided(r) == IF req[r].pc = "serve" THEN "SERVE_CACHE" ELSE "REFRESH"

C12_FreshnessDecision ==
    (seen.r # 0 /\ seen.st # "canceled") =>
        /\ req[seen.r].pc \in {"serve", "dochan"}
        /\ ~seen.found => Decided(seen.r) = "REFRESH"
        /\ (seen.found /\ ~cfg.checkSync) =>
               Decided(seen.r) = "SERVE_CACHE" /\ seen.probe = "none"
        /\ (seen.found /\ cfg.checkSync /\ seen.probe \in {"unknown", "size"}) =>
               (Decided(seen.r) = "SERVE_CACHE" <=>
                  (seen.cacheSize # 0
                   /\ (seen.sourceSize <= 0 \/ seen.sourceSize = seen.cacheSize)))

\* A probe answered without a size meets an entry, which is served.
C12_Witness ==
    /\ seen.found /\ cfg.checkSync /\ seen.probe = "unknown" /\ seen.cacheSize > 0
    /\ Decided(seen.r) = "SERVE_CACHE"

\* C13: with CheckSyncTimeout > 0, an entry whose origin probe failed or timed
\* out is served from the cache and no refresh is started for the request.
C13_ProbeFailureServesCache ==
    (seen.r # 0 /\ seen.found /\ seen.probe = "fail") =>
        /\ req[seen.r].pc = "serve"
        /\ req[seen.r].via = "hit"
        /\ prod[seen.r].pc = "none"

C13_Witness ==
    /\ seen.found /\ cfg.checkSync /\ seen.probe = "fail"
    /\ seen.cacheSize # origin
    /\ req[seen.r].pc = "serve"

\* C15: every request in cache mode ends with one explicitly written status
\* out of 200, 302, 403, 404, 405 and 500; no path returns without having
\* written a response.
ExplicitStatus == {200, 302, 403, 404, 405, 500}

C15_ExplicitStatus ==
    last.r # 0 =>
        /\ last.resp.status \in ExplicitStatus
        /\ last.resp.kind \notin {"unwritten", "panic"}

\* C14: with a local cache directory, the file at <K> always has the size of
\* an object that a fetch of K committed to the remote store.
C14_LocalFileIsCommitted ==
    local.final # 0 => local.data[local.final].n \in local.committed

\* The request at ServeHTTP has been answered or handed over.
Handled == adm.pc = "done"

GetOrHead == adm.method \in {"GET", "HEAD"}

NotFoundAnswer == adm.out = NotFoundOut(adm.conf)

\* C16: a request with a method other than GET and HEAD is answered 405
\* whatever its path, host and configuration, and is not handed over to the
\* store or the origin.
C16_MethodNotAllowed ==
    (Handled /\ ~GetOrHead) => adm.out = [NoOut EXCEPT !.kind = "405"]

\* A POST that would be forwarded as a GET.
C16_Witness ==
    /\ Handled /\ adm.method = "POST" /\ adm.out.kind = "405"
    /\ Admitted("GET", adm.path, adm.host, adm.conf).kind = "forward"

\* C17: a GET or HEAD whose path is not empty, does not end with "/" and ends
\* with a configured block suffix is answered 403, before the host is looked
\* at; a path that ends with no block suffix is never answered 403.
C17_BlockSuffix ==
    (Handled /\ GetOrHead) =>
        /\ (adm.path # <<>> /\ ~HasSuffix(adm.path, <<"/">>)
            /\ Blocked(adm.path, adm.conf.blockSuffix)) => adm.out.kind = "403"
        /\ adm.out.kind = "403" => Blocked(adm.path, adm.conf.blockSuffix)

\* C18: a GET or HEAD whose request path is empty, is "/" or ends with "/" is
\* answered 404 (by the NotFound handler when one is configured) and is not
\* forwarded.
C18_DirectoryPathNotFound ==
    (Handled /\ GetOrHead /\ (adm.path = <<>> \/ HasSuffix(adm.path, <<"/">>))) =>
        NotFoundAnswer

\* The host ServeHTTP validates, and whether the request got as far as that.
EffectiveHost ==
    IF adm.conf.hostFromFirstPath THEN Split(Tail(cleanPath(adm.path)))[1]
    ELSE IF adm.conf.host # <<>> THEN adm.conf.host
    ELSE adm.host

PathChecksPassed ==
    /\ GetOrHead
    /\ cleanPath(adm.path) # <<"/">>
    /\ ~Blocked(cleanPath(adm.path), adm.conf.blockSuffix)
    /\ adm.conf.hostFromFirstPath => Len(Split(Tail(cleanPath(adm.path)))) > 1

\* C19: a GET or HEAD that passes the path checks is answered 404 whenever
\* its effective host contains no ".", or fails the syntactic domain check,
\* or does not end with the configured BaseDomain; when BaseDomain matches,
\* the upstream host is the effective host without that suffix.
C19_HostValidation ==
    (Handled /\ PathChecksPassed) =>
        /\ (\/ ~Contains(EffectiveHost, ".")
            \/ ~isValidDomain(EffectiveHost)
            \/ (adm.conf.baseDomain # <<>>
                /\ ~HasSuffix(EffectiveHost, adm.conf.baseDomain))) => NotFoundAnswer
        /\ (adm.out.kind = "forward" /\ adm.conf.baseDomain # <<>>) =>
               adm.out.host \o adm.conf.baseDomain = EffectiveHost

\* C20: with HostFromFirstPath the first path segment is the host and the
\* remaining segments are the upstream path; a path with no segment after
\* the host is answered 404; the host from the path is validated as the same
\* host in the Host header is.
C20_HostFromFirstPath ==
    (/\ Handled /\ GetOrHead /\ adm.conf.hostFromFirstPath
     /\ cleanPath(adm.path) # <<"/">>
     /\ ~Blocked(cleanPath(adm.path), adm.conf.blockSuffix)) =>
        LET segs == Split(Tail(cleanPath(adm.path)))
            rest == <<"/">> \o Join(Tail(segs))
            asHeader == [adm.conf EXCEPT !.hostFromFirstPath = FALSE, !.host = <<>>]
        IN  /\ Len(segs) = 1 => NotFoundAnswer
            /\ Len(segs) > 1 => adm.out = Admitted(adm.method, rest, segs[1], asHeader)
            /\ adm.out.kind = "forward" => adm.out.key = segs[1] /\ adm.out.path = rest

C20_Witness ==
    /\ Handled /\ adm.conf.hostFromFirstPath
    /\ adm.path = <<"/", "a", ".", "a", "/", "a">>
    /\ adm.out.kind = "forward"
    /\ adm.out.key = <<"a", ".", "a">> /\ adm.out.path = <<"/", "a">>

\* C21: an origin GET answered 200 with Content-Length 0 ends the refresh
\* with NotOK before the Writer is opened: no Commit, no Cancel, the body
\* closed, the store unchanged.
C21_ZeroLengthNotOK ==
    [][(ended'.p # 0 /\ ended'.get = "ok" /\ ended'.cl = 0) =>
          /\ ended'.out = "notok"
          /\ ended'.calls = {}
          /\ ended'.body = "closed"
          /\ store' = store]_vars

C21_Witness ==
    /\ ended.p # 0 /\ ended.get = "ok" /\ ended.cl = 0
    /\ ended.out = "notok" /\ store # NoObj

\* C22: no refresh commits a zero-byte object, whether the origin declares
\* the length of its empty body as 0 or not at all.
C22_NoEmptyCommit == ended.out = "committed" => ended.n > 0

\* C23: in redirect mode an entry is served, when the store signs the URL,
\* for GET by a 302 to SignGet of the key; for HEAD with the entry's
\* metadata at hand by a 200 with Content-Type, Content-Length, Last-Modified
\* and ETag of that entry; for HEAD with no metadata to be had by a 302 to
\* SignHead of the key.
Redirected ==
    /\ last.r # 0 /\ ~cfg.noRedirect /\ last.method # "none"
    /\ last.via \in {"hit", "refreshed", "stale"}

C23_RedirectServe ==
    (Redirected /\ last.resp.kind # "unwritten") =>
        /\ last.method = "GET" =>
               last.resp = Resp(302, "signget", store.ver, store.n)
        /\ (last.method = "HEAD" /\ last.cacheInfo # NoObj) =>
               /\ last.resp.status = 200 /\ last.resp.kind = "head"
               /\ last.resp.ct = OctetStream
               /\ last.resp.cl = last.cacheInfo.n
               /\ last.resp.lm = last.cacheInfo.ver
               /\ last.resp.etag = last.cacheInfo.ver
        /\ (last.method = "HEAD" /\ last.cacheInfo = NoObj) =>
               \/ last.resp = Resp(302, "signhead", store.ver, store.n)
               \/ /\ last.resp.status = 200 /\ last.resp.kind = "head" /\ store # NoObj
                  /\ last.resp.ct = OctetStream /\ last.resp.cl = store.n
                  /\ last.resp.lm = store.ver /\ last.resp.etag = store.ver

C23_Witness ==
    /\ Redirected /\ last.method = "HEAD" /\ last.cacheInfo = NoObj
    /\ last.resp.kind = "signhead"

\* C24: with NoRedirect a GET served from the store is answered 200 with the
\* object's bytes, and GET and HEAD are sent with Content-Type
\* application/octet-stream, Content-Length equal to the object's size and
\* Last-Modified.
C24_DirectServeHeaders ==
    (last.r # 0 /\ cfg.noRedirect /\ last.resp.kind \in {"body", "headbare"}) =>
        /\ last.resp.status = 200
        /\ last.resp.kind = "body" => last.resp.ver = store.ver /\ last.resp.n = store.n
        /\ last.resp.ct = OctetStream
        /\ last.resp.cl = store.n
        /\ last.resp.lm = store.ver

\* The call of the helper has returned.
Returned(fn) == call.fn = fn /\ call.pc = "done"

\* The origin was asked and reported a size > 0 that is not the file's.
LocalStale ==
    /\ call.checkSync /\ ~call.cidn
    /\ call.probeOk /\ call.sourceSize > 0 /\ call.sourceSize # call.fi.n

\* The local path is missing, a directory or an empty file.
LocalUnusable == call.fi.kind # "file" \/ call.fi.n = 0

\* The file was written to the response: 200 with its bytes, no body for HEAD.
LocalAnswered ==
    /\ call.served
    /\ call.resp.status = 200
    /\ call.resp.n = call.fi.n
    /\ call.resp.kind = IF call.method = "HEAD" THEN "localhead" ELSE "local"

Answered ==
    /\ call.fn \in {"httpHead", "httpGet"}
    /\ call.pc = "done"
    /\ call.reqOk /\ call.doOk

\* C26: for an origin status other than 200 httpHead and httpGet return
\* ErrNotOK and nil metadata, httpGet also a nil body with the response's
\* body closed; for 200 they return the metadata (httpGet also the body) and
\* no error.
C26_NotOK ==
    Answered =>
        IF call.status # 200
        THEN /\ call.out.err = "notok"
             /\ ~call.out.info
             /\ call.fn = "httpGet" => ~call.out.body /\ call.out.respBody = "closed"
        ELSE /\ call.out.err = "none"
             /\ call.out.info
             /\ call.fn = "httpGet" => call.out.body

C26_Witness ==
    /\ Answered /\ call.fn = "httpGet" /\ call.status = 204
    /\ call.out.err = "notok" /\ call.out.respBody = "closed"

\* C27: cleanPath is idempotent: cleaning a cleaned path changes nothing.
C27_Idempotent ==
    Returned("cleanPath") => cleanPath(call.out) = call.out

C27_Witness ==
    /\ Returned("cleanPath")
    /\ call.path = <<"a", "/", "/", ".", ".", "/", ".">>
    /\ call.out = <<"/">>
    /\ cleanPath(call.out) = <<"/">>

\* The reference: the segments of str are the pieces between its slashes,
\* found by position.
Cuts(str) == {0, Len(str) + 1} \cup {i \in 1..Len(str) : str[i] = "/"}

Cut(str, k) == CHOOSE i \in Cuts(str) : Cardinality({j \in Cuts(str) : j < i}) = k

RefSegments(str) ==
    [k \in 1..(Cardinality(Cuts(str)) - 1) |->
        SubSeq(str, Cut(str, k - 1) + 1, Cut(str, k) - 1)]

\* The kept segments after the first i segments were read.
RefKept(segs) ==
    LET kept[i \in 0..Len(segs)] ==
            IF i = 0 THEN <<>>
            ELSE IF segs[i] \in {<<>>, <<".">>} THEN kept[i - 1]
            ELSE IF segs[i] = <<".", ".">>
                 THEN SubSeq(kept[i - 1], 1, Len(kept[i - 1]) - 1)
            ELSE Append(kept[i - 1], segs[i])
    IN  kept[Len(segs)]

\* The kept segments, each behind a "/".
RefJoined(kept) ==
    LET joined[i \in 0..Len(kept)] ==
            IF i = 0 THEN <<>> ELSE joined[i - 1] \o <<"/">> \o kept[i]
    IN  joined[Len(kept)]

RefClean(str) ==
    LET kept == RefKept(RefSegments(str))
    IN  IF kept = <<>> THEN <<"/">> ELSE RefJoined(kept)

\* C28: cleanPath(p) is the reference result: p split on "/", empty and "."
\* segments dropped, each ".." removing the kept segment before it, the rest
\* joined behind a leading "/"; it is "/" when nothing is kept, and else does
\* not end with "/" and has no empty, "." or ".." segment.
C28_Reference ==
    Returned("cleanPath") =>
        /\ call.out = RefClean(call.path)
        /\ Head(call.out) = "/"
        /\ RefKept(RefSegments(call.path)) = <<>> <=> call.out = <<"/">>
        /\ call.out # <<"/">> =>
              /\ call.out[Len(call.out)] # "/"
              /\ \A k \in 1..Len(RefSegments(Tail(call.out))) :
                    RefSegments(Tail(call.out))[k] \notin {<<>>, <<".">>, <<".", ".">>}

C28_Witness ==
    /\ Returned("cleanPath")
    /\ call.path = <<"a", "/", ".", ".", "/", ".", "a">>
    /\ call.out = <<"/", ".", "a">>

\* The host without the whitespace around it: from its first to its last
\* character that is not a blank.
Trimmed(h) ==
    LET solid == {i \in 1..Len(h) : h[i] # " "}
    IN  IF solid = {} THEN <<>>
        ELSE SubSeq(h, CHOOSE i \in solid : \A j \in solid : i <= j,
                       CHOOSE i \in solid : \A j \in solid : j <= i)

\* The reasons the validator has to reject a trimmed host.
Rejectable(h) ==
    \/ h = <<>>
    \/ Len(h) > MaxDomainLen
    \/ h[1] \in {"-", "_", "."}
    \/ h[Len(h)] \in {"-", "_"}
    \/ \E i \in 1..Len(h) : h[i] \in ForbiddenChars

\* C29: isValidDomain(h) is false for every h that, trimmed, is empty, longer
\* than 255 characters, starts or ends with "-" or "_", starts with "." or
\* has a blocked punctuation character, and true for every other h, a host
\* without a dot included.
C29_DomainRule ==
    Returned("isValidDomain") => (call.out <=> ~Rejectable(Trimmed(call.host)))

C29_Witness ==
    /\ Returned("isValidDomain")
    /\ call.host = <<" ">> \o Letters(MaxDomainLen) \o <<" ">>
    /\ call.out

\* C30: in tee mode, for as long as a producer is copying, the tee-session
\* map holds that producer's session under K, so that a request reaching the
\* refresh step finds it there and does not call cacheFileTee again.
C30_SessionInMap ==
    cfg.tee => \A p \in Reqs : Active(p) => teeCache = p

\* The request holds a tee session: it got one from the call's result or
\* from the map and its ServeHTTP on it has not returned.
Holds(r) == req[r].pc \in {"teeServe", "teeRead"}

\* C31: from the moment a request obtains a tee session until its ServeHTTP
\* on it has returned, the session's temp file is not closed (nor removed),
\* also when the producer ends before the request created its reader.
C31_TmpOpenWhileHeld ==
    \A r \in Reqs : Holds(r) => ~tee[req[r].tee].tmpClosed

\* Close left the map, the temp file's handle and the file as they were.
CloseNoOp ==
    /\ call.out.entry = call.entry
    /\ call.out.tmp = call.tmp
    /\ call.out.onDisk = call.onDisk

\* C32 as stated: teeResponse.Close changes nothing while the SWMR is open
\* or has a reader in use; else it deletes the entry under K, closes the temp
\* file and removes the file from disk exactly when no local cache path is
\* set.
C32_CloseAsStated ==
    Returned("Close") =>
        IF ~call.swmrClosed \/ call.using # 0 THEN CloseNoOp
        ELSE /\ call.out.entry = "none"
             /\ call.out.tmp = "closed"
             /\ call.out.onDisk = (call.localCachePath /\ call.onDisk)

\* C32: teeResponse.Close changes nothing while the SWMR is open or has a
\* reader in use; else it deletes the entry under K and closes the temp file,
\* and, when that close succeeds, removes the file from disk exactly when no
\* local cache path is set; when the close fails it returns the error and
\* leaves the file where it is.
C32_Close ==
    Returned("Close") =>
        IF ~call.swmrClosed \/ call.using # 0 THEN CloseNoOp /\ ~call.out.err
        ELSE /\ call.out.entry = "none"
             /\ call.out.tmp = "closed"
             /\ call.out.err = ~call.closeOk
             /\ call.out.onDisk = IF call.closeOk THEN call.localCachePath /\ call.onDisk
                                  ELSE call.onDisk

C32_Witness ==
    /\ Returned("Close")
    /\ call.swmrClosed /\ call.using = 0 /\ call.tmp = "open" /\ call.closeOk
    /\ call.onDisk /\ ~call.localCachePath /\ call.entry = "own"
    /\ call.out = [entry |-> "none", tmp |-> "closed", onDisk |-> FALSE, err |-> FALSE]

\* A request's deferred tee.Close tears session t down in this step: the
\* request releases the last reader of the closed SWMR.
RequestTeardown(t) ==
    \E r \in Reqs :
        /\ req[r].pc = "teeRead" /\ req[r].tee = t /\ req'[r].pc = "done"
        /\ tee[t].swmrClosed /\ tee[t].using = 1

\* C33: the teardown of a tee session (its map entry deleted, its temp file
\* closed) is performed at most once: no Close tears down a session whose
\* temp file an earlier Close has closed.
C33_TeardownOnce ==
    [][\A t \in Reqs : tee[t].tmpClosed => ~RequestTeardown(t)]_vars

\* C34: on every exit path of the tee producer the SWMR is closed for
\* writing, the Writer is closed and the origin's body is closed; hence the
\* SWMR of every session is closed in the end and every request that serves
\* from a session returns.
C34_ProducerExitCloses ==
    /\ [](cfg.tee /\ ended.p # 0 /\ ended.out \in {"cancelled", "commitErr", "committed"} =>
            /\ tee[ended.p].swmrClosed
            /\ "Close" \in ended.calls
            /\ ended.body = "closed")
    /\ \A p \in Reqs : (cfg.tee /\ Active(p)) ~> tee[p].swmrClosed
    /\ \A r \in Reqs : Holds(r) ~> (req[r].pc = "done")

\* C34 witness: a tee producer ended in Cancel after a broken copy and a
\* request is still reading its session.
C34_Witness ==
    /\ cfg.tee
    /\ ended.p # 0 /\ ended.cerr /\ ended.out = "cancelled"
    /\ tee[ended.p].swmrClosed
    /\ \E r \in Reqs : req[r].pc = "teeRead" /\ req[r].tee = ended.p

\* C35: the owner's entry is removed from the in-flight table before its
\* waiters are released: the table never holds a closed channel, so a
\* released waiter, or a later arrival, that looks the key up becomes the
\* owner or finds the entry of an owner that has not finished; and an owner
\* that follows a commit finds the object.
C35_RemovedBeforeRelease ==
    /\ mut.table \notin mut.closed
    /\ \A r \in Arrivals :
         /\ mut.pc[r] = "wait" /\ mut.ch[r] \notin mut.closed =>
                mut.pc[mut.ch[r]] \in {"owner", "hit", "cacheFile", "doneCache", "close"}
         /\ mut.pc[r] = "released" => mut.table # mut.ch[r]
         /\ mut.pc[r] \in {"owner", "hit", "cacheFile", "doneCache"} =>
                mut.table = r /\ mut.ch[r] = r

\* C35 witness: a waiter released by the first owner has become the next
\* owner and found the committed object.
C35_Witness ==
    \E r \in Arrivals :
        /\ mut.pc[r] = "hit"
        /\ mut.table = r
        /\ \E o \in Arrivals : o # r /\ o \in mut.closed /\ mut.pc[o] = "done"

\* C36: a remote Stat that fails with the client's cancellation is answered
\* 500 with the cancellation error and starts no refresh; a Stat that fails
\* with any other error goes on as a miss: to the refresh, with no entry.
C36_StatError ==
    seen.r # 0 =>
        /\ seen.st = "canceled" =>
              /\ last.r = seen.r
              /\ last.resp = Resp(500, "canceled", -1, -1)
              /\ req[seen.r].pc = "done"
              /\ prod[seen.r].pc = "none" /\ seen.r \notin waiters /\ group # seen.r
        /\ seen.st = "error" =>
              /\ ~seen.found
              /\ last = NoLast
              /\ req[seen.r].pc = "dochan"
              /\ req[seen.r].cacheInfo = NoObj
              /\ req[seen.r].via = "none"

\* C36 witness: the Stat of a stored object failed with an error other than
\* a cancellation and the request is on its way to the refresh.
C36_Witness ==
    /\ seen.r # 0 /\ seen.st = "error" /\ store # NoObj
    /\ req[seen.r].pc = "dochan" /\ req[seen.r].cacheInfo = NoObj

\* C37: cacheFileWithCIDN returns nil only for a blob that reached
\* Succeeded, the ErrNotOK error with the first non-empty condition message
\* only for one that reached Failed, the "deleted" error only when the blob
\* was deleted and ctx.Err() only when its context ended; while the blob is
\* in no terminal phase and none of this happened the call does not return.
C37_ReturnsOnItsBlob ==
    cidn.pc = "returned" =>
        /\ cidn.ret.kind = "nil" => "succeeded" \in cidn.was
        /\ cidn.ret.kind = "failed" =>
              "failed" \in cidn.was /\ cidn.ret.msg = FirstMessage(cidn.conds)
        /\ cidn.ret.kind = "deleted" => "deleted" \in cidn.was
        /\ cidn.ret.kind = "ctx" => cidn.ctxDone

\* C38: an Add, Update or Delete event of a blob with another name neither
\* ends the call nor changes its result: the handler forwards nothing for it.
C38_OtherBlobIgnored ==
    [][(/\ cidn.pc = "watch" /\ cidn.queue # <<>>
        /\ Head(cidn.queue).name # "N"
        /\ cidn'.queue = Tail(cidn.queue)) => cidn'.chan = cidn.chan]_vars

\* The sizes of the objects committed to the remote store for the key
\* K + ".tmp": nothing is ever fetched for it.
CommittedForTmpKey == {}

\* C39: a file the local fast path serves for a key holds the bytes of an
\* object committed to the remote store for that key, also for the key whose
\* local path is the temp file of K's fetch.
C39_LocalServesCommitted ==
    /\ (last.r # 0 /\ last.resp.kind \in {"local", "localhead"}) =>
           last.resp.n \in local.committed
    /\ last.via = "tmpKey" => last.resp.n \in CommittedForTmpKey

\* The request takes a step on the serve path: Stat decides to serve the
\* entry it found, or the entry is served.
ServeStep(r) ==
    \/ req[r].pc = "idle" /\ req'[r].pc = "serve"
    \/ req[r].pc = "serve" /\ req[r].via = "hit" /\ req'[r].pc = "done"

====
